---- MODULE Spec2Model ----
(***************************************************************************)
(* Model of src/data_generation/run_solver.py: run_problem (the            *)
(* checkpointed capture loop over the solver's output lines), its helper   *)
(* predicates, and the part of the __main__ driver that stores a result.   *)
(*                                                                         *)
(* Text is modelled as sequences of one-character strings, so that the     *)
(* slices, comparisons, split and float conversion of the source are       *)
(* computed rather than assumed.  Elapsed time is in milliseconds          *)
(* (the source holds seconds as a float and a budget in milliseconds);     *)
(* a parsed number m * 10^-e is the pair <<m, e>> with e minimal.          *)
(***************************************************************************)
EXTENDS Integers, Sequences, FiniteSets, TLC

\* ------------------------------------------------------------------ bounds
\* longest list of checkpoint targets explored by the free-input specification
MaxTargets == 2

\* the clock of the free-input specification takes the values 0, 250, ...,
\* 250 * MaxTick (the last one lies beyond the time budget)
MaxTick == 5

\* the solution-marker counter of the history saturates here
MaxMarks == 2

\* longest list of checkpoint targets of the scripted specification
MaxScriptTargets == 4

\* most rows of the todo table the driver specification starts with
MaxItems == 2

\* the run counter of the history saturates here
MaxRuns == 2

\* the clock of the scheduler specification takes the values 0, 50, ...,
\* 50 * MaxProbeTick
MaxProbeTick == 25

\* the lines given to the classifiers are cut at every length up to this one
MaxLineLen == 21

\* ------------------------------------------------------------ text helpers
Min(a, b) == IF a < b THEN a ELSE b

\* Python slice s[:n]
Prefix(s, n) == SubSeq(s, 1, Min(n, Len(s)))

\* Python slice s[n:]
Suffix(s, n) == SubSeq(s, n + 1, Len(s))

STAT_PREFIX == <<"%", "%", "%", "m", "z", "n", "-", "s", "t", "a", "t">>

VALUE_PREFIX == STAT_PREFIX \o <<":", " ">>

END_PREFIX == STAT_PREFIX \o <<"-", "e", "n", "d">>

SOLUTION_LINE == <<"-", "-", "-", "-", "-", "-", "-", "-", "-", "-", "\n">>

\* ------------------------------------------------------------- classifiers
\* variant: every line is fed to the scheduler and the capture
is_stat_related_any_line(line) == Len(line) >= 0

is_stat_related(line) == Prefix(line, 11) = STAT_PREFIX

\* variant: only a line holding exactly one '=' counts as a value line
is_stat_value_with_one_sep(line) ==
    /\ Prefix(line, 13) = VALUE_PREFIX
    /\ Cardinality({ i \in 1..Len(line) : line[i] = "=" }) = 1

is_stat_value(line) == Prefix(line, 13) = VALUE_PREFIX

\* variant: the comparison stops at %%%mzn-stat
stat_block_end_by_stat_prefix(line) == Prefix(line, 11) = STAT_PREFIX

stat_block_end(line) == Prefix(line, 15) = END_PREFIX

\* variant: the marker is recognised by its dashes, whatever follows them
is_solution_by_prefix(line) == Prefix(line, 10) = Prefix(SOLUTION_LINE, 10)

is_solution(line) == line = SOLUTION_LINE

\* ---------------------------------------------------- str.split and float
HasSep(s) == \E i \in 1..Len(s) : s[i] = "="

FirstSep(s) == CHOOSE i \in 1..Len(s) : s[i] = "=" /\ \A j \in 1..(i - 1) : s[j] # "="

RECURSIVE split(_)
\* s.split('='): the pieces of s between the '=' characters
split(s) ==
    IF ~HasSep(s) THEN <<s>>
    ELSE <<SubSeq(s, 1, FirstSep(s) - 1)>> \o split(Suffix(s, FirstSep(s)))

Whitespace == {" ", "\n", "\t", "\r"}

DigitChars == <<"0", "1", "2", "3", "4", "5", "6", "7", "8", "9">>

IsDigit(c) == \E i \in 1..10 : DigitChars[i] = c

DigitVal(c) == (CHOOSE i \in 1..10 : DigitChars[i] = c) - 1

RECURSIVE lstrip(_)
lstrip(s) == IF s # <<>> /\ Head(s) \in Whitespace THEN lstrip(Tail(s)) ELSE s

RECURSIVE rstrip(_)
rstrip(s) ==
    IF s # <<>> /\ s[Len(s)] \in Whitespace THEN rstrip(SubSeq(s, 1, Len(s) - 1)) ELSE s

strip(s) == rstrip(lstrip(s))

RECURSIVE DigitsValue(_)
\* the number written by a string of decimal digits
DigitsValue(s) ==
    IF s = <<>> THEN 0
    ELSE 10 * DigitsValue(SubSeq(s, 1, Len(s) - 1)) + DigitVal(s[Len(s)])

AllDigits(s) == \A i \in 1..Len(s) : IsDigit(s[i])

RECURSIVE Normal(_, _)
\* m * 10^-e with the trailing zeros of the fraction removed
Normal(m, e) == IF e > 0 /\ m % 10 = 0 THEN Normal(m \div 10, e - 1) ELSE <<m, e>>

Unsigned(s) == IF s # <<>> /\ Head(s) \in {"+", "-"} THEN Tail(s) ELSE s

Negative(s) == s # <<>> /\ Head(s) = "-"

DotAt(s) == IF \E i \in 1..Len(s) : s[i] = "." THEN CHOOSE i \in 1..Len(s) : s[i] = "." /\ \A j \in 1..(i - 1) : s[j] # "." ELSE Len(s) + 1

IntPart(s) == SubSeq(s, 1, DotAt(s) - 1)

FracPart(s) == Suffix(s, DotAt(s))

\* float(s) succeeds: optional sign, decimal digits with at most one point and
\* at least one digit, surrounding whitespace ignored.  (The exponent, inf,
\* nan and underscore forms float() also accepts are not among Lines.)
float_ok(s) ==
    LET u == Unsigned(strip(s))
    IN  /\ AllDigits(IntPart(u))
        /\ AllDigits(FracPart(u))
        /\ Len(IntPart(u)) + Len(FracPart(u)) > 0

\* variant: the digits are read without regard to the decimal point
float_ignoring_point(s) ==
    LET u == Unsigned(strip(s))
        m == DigitsValue(IntPart(u) \o FracPart(u))
    IN  <<IF Negative(strip(s)) THEN 0 - m ELSE m, 0>>

\* float(s) as <<m, e>>, meaning m * 10^-e
float(s) ==
    LET u == Unsigned(strip(s))
        m == DigitsValue(IntPart(u) \o FracPart(u))
    IN  Normal(IF Negative(strip(s)) THEN 0 - m ELSE m, Len(FracPart(u)))

\* name, stat = line[13:].split('='); float(stat)  raises ValueError
parse_raises(line) ==
    \/ Len(split(Suffix(line, 13))) # 2
    \/ ~float_ok(split(Suffix(line, 13))[2])

stat_name(line) == split(Suffix(line, 13))[1]

stat_number(line) == float(split(Suffix(line, 13))[2])

\* ------------------------------------------------------------ output lines
NL == <<"\n">>

LineEnd == END_PREFIX \o NL

LineX1 == VALUE_PREFIX \o <<"x", "=", "1", ".", "0", "\n">>

LineX2 == VALUE_PREFIX \o <<"x", "=", "2", "\n">>

LineFoo == VALUE_PREFIX \o <<"f", "o", "o", "=", "3", ".", "5", "\n">>

LineGarbage == VALUE_PREFIX \o <<"g", "a", "r", "b", "a", "g", "e", "\n">>

LineNotNumber == VALUE_PREFIX \o <<"x", "=", "a", "b", "c", "\n">>

LineTwoSeps == VALUE_PREFIX \o <<"x", "=", "1", "=", "2", "\n">>

LineStatOther == STAT_PREFIX \o <<"i", "s", "t", "i", "c", "s", "\n">>

LineMarkerNoNewline == SubSeq(SOLUTION_LINE, 1, 10)

LineEmpty == NL

\* the lines the solver may write
Lines ==
    { LineEnd, LineX1, LineX2, LineFoo, LineGarbage, LineNotNumber, LineTwoSeps,
      LineStatOther, SOLUTION_LINE, LineMarkerNoNewline, LineEmpty }

\* ------------------------------------------------------------------ inputs
\* checkpoint percentages the free-input specification draws its targets from
Percents == {25, 50, 100}

\* checkpoint percentages of the scripted specification
ScriptPercents == {5, 10, 15, 20, 50, 100}

Increasing(l) == \A i \in 1..(Len(l) - 1) : l[i] < l[i + 1]

\* the non-empty strictly increasing lists of at most n percentages
IncreasingLists(percents, n) ==
    { l \in UNION { [1..k -> percents] : k \in 1..n } : Increasing(l) }

TargetLists == IncreasingLists(Percents, MaxTargets)

ScriptTargetLists == IncreasingLists(ScriptPercents, MaxScriptTargets)

TimeLimits == {1000}

Clock == { 250 * k : k \in 0..MaxTick }

\* the value lines of one statistics block
BlockContents == { <<LineX1>>, <<LineX1, LineFoo>>, <<LineX2, LineX1>> }

FreeScript == [kind |-> "free", n |-> 0, tail |-> "none", lines |-> <<>>]

\* n statistics blocks (value lines, then a block-end line), block k read at
\* time k * limit / n
BlockLines(n, limit, content) ==
    LET b == Len(content) + 1
    IN  [ i \in 1..(n * b) |->
            [ line |-> IF ((i - 1) % b) < Len(content) THEN content[((i - 1) % b) + 1] ELSE LineEnd,
              at   |-> ((((i - 1) \div b) + 1) * limit) \div n ] ]

\* the first time, in milliseconds, at which percentage p of the limit has passed
DueAt(p, limit) == (p * limit + 99) \div 100

\* n capture cycles: for target k a block-end line, the value lines and a
\* block-end line, all read when target k is due
CycleLines(targets, n, limit, content) ==
    LET c == Len(content) + 2
    IN  [ i \in 1..(n * c) |->
            [ line |-> IF ((i - 1) % c) \in 1..Len(content) THEN content[(i - 1) % c] ELSE LineEnd,
              at   |-> DueAt(targets[((i - 1) \div c) + 1], limit) ] ]

\* what follows the complete cycles: nothing, a value line that begins the
\* next capture, or a block-end line and value lines that begin and arm it
TailLines(tail, at, content) ==
    IF tail = "begun" THEN << [line |-> content[1], at |-> at] >>
    ELSE IF tail = "armed"
    THEN << [line |-> LineEnd, at |-> at] >> \o [ i \in 1..Len(content) |-> [line |-> content[i], at |-> at] ]
    ELSE <<>>

\* the solver outputs of the scripted specification for one run
ScriptsFor(targets, limit) ==
    { [kind |-> "blocks", n |-> Len(targets), tail |-> "none",
       lines |-> BlockLines(Len(targets), limit, content)] : content \in BlockContents }
    \cup
    { [kind |-> "cycles", n |-> n, tail |-> "none",
       lines |-> CycleLines(targets, n, limit, content)] :
         n \in 0..Len(targets), content \in BlockContents }
    \cup
    { [kind |-> "cycles", n |-> q[1], tail |-> q[2],
       lines |-> CycleLines(targets, q[1], limit, q[3])
                   \o TailLines(q[2], DueAt(targets[q[1] + 1], limit), q[3])] :
         q \in (0..(Len(targets) - 1)) \X {"begun", "armed"} \X BlockContents }
    \cup
    { [kind |-> "malformed", n |-> 0, tail |-> "armed",
       lines |-> << [line |-> LineEnd, at |-> DueAt(targets[1], limit)],
                    [line |-> LineGarbage, at |-> DueAt(targets[1], limit)] >>],
      [kind |-> "late marker", n |-> 0, tail |-> "none",
       lines |-> << [line |-> SOLUTION_LINE, at |-> limit + 250] >>] }
    \cup
    ( IF targets = <<50>> /\ limit = 1000
      THEN { [kind |-> "single block", n |-> 1, tail |-> "none",
              lines |-> << [line |-> LineX1, at |-> 600], [line |-> LineEnd, at |-> 600] >>],
             [kind |-> "single block after block-end", n |-> 1, tail |-> "none",
              lines |-> << [line |-> LineEnd, at |-> 600], [line |-> LineX1, at |-> 600],
                           [line |-> LineEnd, at |-> 600] >>] }
      ELSE {} )

\* ------------------------------------------------------------------- state
VARIABLES
    pc,                  \* where the program is: fetch (lines 671-672, 683-684),
                         \* start (line 53), reading (line 81), waiting (line 110),
                         \* returned (line 113), not_found (lines 55-59), raised
                         \* (lines 97-98), sink_error (line 682), done
    save_percentages,    \* run_problem argument
    time_limit,          \* run_problem argument, milliseconds
    problem_instance,    \* run_problem argument: a path, "" or None
    files,               \* the paths that exist (the executable among them)
    command,             \* the argument list given to Popen
    child,               \* the solver process: none, running, closed (its output
                         \* is closed), exited
    script,              \* the solver's output when it is fixed in advance
    pos,                 \* lines of the script read so far
    line,                \* the line of the current iteration (<<>> before the first)
    elapsed,             \* time.time() - start_time at that line, milliseconds
    save_idx,
    next_save_point,
    output,              \* the pending Output
    capture_next_block,
    is_next_block,
    found_one_solution,
    results,             \* the ProblemResults
    exit_status,         \* what proc.wait() returned
    todo,                \* the rows of the todo table
    sink,                \* the result sets handed to insert_result_set_in_db
    reached,             \* what reached_save_point returned at the current line
    marks,               \* history: solution marker lines read (saturating)
    before,              \* history: the capture state before the current step
    runs,                \* history: the runs started (saturating)
    block,               \* history, kept by the tracking specification: the value
                         \* lines read since the last block-end line (last value per name)
    ends,                \* history, kept by the tracking specification: the block-end
                         \* lines read in this run (saturating)
    classes,             \* what the four classifiers returned for the line, in the
                         \* specification of the classifiers
    item,                \* the driver's id, mzn, dzn: the row read from the todo table
    ran                  \* history: for each id queued at the start, the calls of
                         \* run_problem made for it (saturating)

\* the arguments and the surroundings of a run
given == << save_percentages, time_limit, problem_instance, files, script >>

\* the row at hand and the history of the rows
fetched == << item, ran >>

\* the history of the block-end lines
tracked == << block, ends >>

\* the locals of the capture loop
capture ==
    << save_idx, next_save_point, output, capture_next_block, is_next_block, results >>

vars ==
    << pc, given, command, child, pos, line, elapsed, capture, found_one_solution,
       exit_status, todo, sink, reached, marks, before, runs, tracked, classes, fetched >>

\* the values of the variable classes
NotClassified == [called |-> FALSE, stat |-> FALSE, value |-> FALSE, end |-> FALSE, solution |-> FALSE]

\* the values of the variable reached
NotCalled == [called |-> FALSE, value |-> FALSE]

Called(value) == [called |-> TRUE, value |-> value]

\* Python's None, among paths
None == "<None>"

\* Python's None, among the ids of the rows (which start at 1)
NoId == 0

\* (None, None, None): no row at hand
NoItem == [id |-> NoId, mzn |-> None, dzn |-> None]

\* no row was queued
NoRuns == [i \in {} |-> 0]

\* the history after a call of run_problem for the row r
Started(r) == IF r.id \in DOMAIN ran THEN [ran EXCEPT ![r.id] = Min(@ + 1, 2)] ELSE ran

EXECUTABLE == "minizinc"

MODEL == "model.mzn"

SOLVER == "org.chuffed.modded-chuffed"

\* the instance arguments of the model
Instances == {None, "", "data.dzn"}

\* line 25: the default time limit
DEFAULT_TIME_LIMIT == 7200000

\* line 674
save_points == <<5, 10, 15, 20>>

RECURSIVE str(_)
\* str(n) for a natural number: its decimal digits
str(n) == IF n < 10 THEN <<DigitChars[n + 1]>> ELSE str(n \div 10) \o <<DigitChars[(n % 10) + 1]>>

\* os.path.exists(path), and `which` for the executable
exists(path) == path \in files

\* the truth value of a path argument in a condition
truthy(path) == path \notin {None, ""}

\* lines 54-59: the check that raises FileNotFoundError, if one does
config_error ==
    IF ~exists(EXECUTABLE) THEN "executable"
    ELSE IF ~exists(MODEL) THEN "model"
    ELSE IF truthy(problem_instance) /\ ~exists(problem_instance) THEN "instance"
    ELSE "none"

\* lines 72-75
solver_command(instance, limit) ==
    IF instance # None
    THEN << EXECUTABLE, MODEL, instance, "--solver", SOLVER, "-t", str(limit) >>
    ELSE << EXECUTABLE, MODEL, "--solver", SOLVER, "-t", str(limit) >>

\* an empty dict
NoFeatures == [n \in {} |-> <<0, 0>>]

\* Output(percent=p): the feature mapping starts empty
Output(p) == [percent |-> p, features |-> NoFeatures]

\* ProblemResults(model, problem_instance)
ProblemResults == [solved |-> FALSE, results |-> <<>>]

\* variant: a name already present keeps its value (dict.setdefault)
SetItem_keeping_first(features, name, value) ==
    [n \in (DOMAIN features) \cup {name} |->
        IF n \in DOMAIN features THEN features[n] ELSE value]

\* features[name] = value
SetItem(features, name, value) ==
    [n \in (DOMAIN features) \cup {name} |-> IF n = name THEN value ELSE features[n]]

\* variant: the list holds the latest snapshot only
list_append_replacing(list, x) == <<x>>

\* list.append(x)
list_append(list, x) == Append(list, x)

\* variant: the target must have been passed, not merely reached
reached_save_point_strict(el, timeout, percentages, idx) ==
    IF idx = Len(percentages) THEN FALSE
    ELSE el * 100 > percentages[idx + 1] * timeout

reached_save_point(el, timeout, percentages, idx) ==
    IF idx = Len(percentages) THEN FALSE
    ELSE el * 100 >= percentages[idx + 1] * timeout

\* variant: the indicator follows the current line
solution_seen_last_line(found, ln) == is_solution(ln)

\* lines 83-84
solution_seen(found, ln) == found \/ is_solution(ln)

\* the capture state as the history records it
CaptureState ==
    [ capture_next_block |-> capture_next_block, is_next_block |-> is_next_block,
      save_idx |-> save_idx, output |-> output, count |-> Len(results.results),
      found |-> found_one_solution ]

\* a call of run_problem with the given target lists, nothing queued behind it
InitWith(targets) ==
    /\ pc = "start"
    /\ save_percentages \in targets
    /\ time_limit \in TimeLimits
    /\ command = <<>>
    /\ child = "none"
    /\ pos = 0
    /\ line = <<>>
    /\ elapsed = 0
    /\ save_idx = 0
    /\ next_save_point = -1
    /\ output = Output(-1)
    /\ capture_next_block = FALSE
    /\ is_next_block = FALSE
    /\ found_one_solution = FALSE
    /\ results = ProblemResults
    /\ exit_status = -1
    /\ todo = {}
    /\ sink = <<>>
    /\ reached = NotCalled
    /\ marks = 0
    /\ before = CaptureState
    /\ runs = 0
    /\ block = NoFeatures
    /\ ends = 0
    /\ classes = NotClassified
    /\ item = NoItem
    /\ ran = NoRuns

\* the solver may write any line at any time
Init ==
    /\ InitWith(TargetLists)
    /\ script = FreeScript
    /\ problem_instance = None
    /\ files = {EXECUTABLE, MODEL}

\* the solver's output is one of the scripted streams; any files, any instance
InitScript ==
    /\ InitWith(ScriptTargetLists)
    /\ script \in ScriptsFor(save_percentages, time_limit)
    /\ problem_instance \in Instances
    /\ files \in SUBSET {EXECUTABLE, MODEL, "data.dzn"}

\* variant: the pending snapshot is created once and shared by the runs
Setup_sharing_output ==
    /\ pc = "start"
    /\ runs' = Min(runs + 1, MaxRuns)
    /\ ran' = Started(item)
    /\ before' = CaptureState
    /\ IF config_error # "none"
       THEN /\ pc' = "not_found"
            /\ UNCHANGED << given, command, child, pos, line, elapsed, capture,
                            found_one_solution, exit_status, todo, sink, reached, marks, tracked, classes, item >>
       ELSE /\ pc' = "reading"
            /\ results' = ProblemResults
            /\ save_idx' = 0
            /\ next_save_point' = save_percentages[1]
            /\ output' = [output EXCEPT !.percent = save_percentages[1]]
            /\ capture_next_block' = FALSE
            /\ is_next_block' = FALSE
            /\ found_one_solution' = FALSE
            /\ command' = solver_command(problem_instance, time_limit)
            /\ child' = "running"
            /\ elapsed' = 0
            /\ line' = <<>>
            /\ pos' = 0
            /\ reached' = NotCalled
            /\ marks' = 0
            /\ block' = NoFeatures
            /\ ends' = 0
            /\ UNCHANGED << given, exit_status, todo, sink, classes, item >>

\* lines 53-78: the checks, the set-up of run_problem and the spawn of the solver
Setup ==
    /\ pc = "start"
    /\ runs' = Min(runs + 1, MaxRuns)
    /\ ran' = Started(item)
    /\ before' = CaptureState
    /\ IF config_error # "none"
       THEN /\ pc' = "not_found"
            /\ UNCHANGED << given, command, child, pos, line, elapsed, capture,
                            found_one_solution, exit_status, todo, sink, reached, marks, tracked, classes, item >>
       ELSE /\ pc' = "reading"
            /\ results' = ProblemResults
            /\ save_idx' = 0
            /\ next_save_point' = save_percentages[1]
            /\ output' = Output(save_percentages[1])
            /\ capture_next_block' = FALSE
            /\ is_next_block' = FALSE
            /\ found_one_solution' = FALSE
            /\ command' = solver_command(problem_instance, time_limit)
            /\ child' = "running"
            /\ elapsed' = 0
            /\ line' = <<>>
            /\ pos' = 0
            /\ reached' = NotCalled
            /\ marks' = 0
            /\ block' = NoFeatures
            /\ ends' = 0
            /\ UNCHANGED << given, exit_status, todo, sink, classes, item >>

\* variant: the scheduler is asked at every statistics line
begins_while_capturing(ln, at) ==
    /\ is_stat_related(ln)
    /\ reached_save_point(at, time_limit, save_percentages, save_idx)

\* line 89: a capture begins at this line
begins(ln, at) ==
    /\ is_stat_related(ln)
    /\ ~capture_next_block
    /\ reached_save_point(at, time_limit, save_percentages, save_idx)

\* lines 81-107: one iteration of the loop, for the line ln read at time `at`
ReadLine(ln, at) ==
    LET capturing == capture_next_block \/ begins(ln, at)
        point == IF begins(ln, at) THEN save_percentages[save_idx + 1] ELSE next_save_point
        in_block == is_stat_related(ln) /\ capturing /\ is_next_block
    IN  /\ pc = "reading"
        /\ line' = ln
        /\ elapsed' = at
        /\ found_one_solution' = solution_seen(found_one_solution, ln)
        /\ marks' = IF ln = SOLUTION_LINE THEN Min(marks + 1, MaxMarks) ELSE marks
        /\ before' = CaptureState
        /\ reached' = IF is_stat_related(ln) /\ ~capture_next_block
                      THEN Called(reached_save_point(at, time_limit, save_percentages, save_idx))
                      ELSE NotCalled
        /\ save_idx' = IF begins(ln, at) THEN save_idx + 1 ELSE save_idx
        /\ next_save_point' = point
        /\ IF in_block /\ is_stat_value(ln) /\ parse_raises(ln)
           THEN \* line 97 or 98 raises ValueError, which nothing catches
                /\ pc' = "raised"
                /\ capture_next_block' = capturing
                /\ UNCHANGED << is_next_block, output, results >>
           ELSE /\ pc' = "reading"
                /\ IF in_block /\ is_stat_value(ln)
                   THEN /\ output' = [output EXCEPT !.features =
                                         SetItem(@, stat_name(ln), stat_number(ln))]
                        /\ capture_next_block' = capturing
                        /\ UNCHANGED << is_next_block, results >>
                   ELSE IF in_block /\ stat_block_end(ln)
                   THEN /\ capture_next_block' = FALSE
                        /\ is_next_block' = FALSE
                        /\ results' = [results EXCEPT !.results = list_append(@, output)]
                        /\ output' = Output(point)
                   ELSE /\ capture_next_block' = capturing
                        /\ is_next_block' =
                              (is_next_block \/
                               (is_stat_related(ln) /\ capturing /\ stat_block_end(ln)))
                        /\ UNCHANGED << output, results >>
        /\ pos' = IF script.kind = "free" THEN pos ELSE pos + 1
        /\ UNCHANGED << given, command, child, exit_status, todo, sink, runs, classes, fetched >>

\* what the next read of proc.stdout can deliver: with free input a line the
\* running solver writes now, otherwise the next line of the script
Pending ==
    IF script.kind = "free"
    THEN IF child = "running"
         THEN { [line |-> l, at |-> t] : l \in Lines, t \in { c \in Clock : c >= elapsed } }
         ELSE {}
    ELSE IF pos < Len(script.lines) THEN { script.lines[pos + 1] } ELSE {}

Read == \E in \in Pending : ReadLine(in.line, in.at) /\ UNCHANGED tracked

\* the solver closes its output
ChildCloses ==
    /\ child = "running"
    /\ child' = "closed"
    /\ UNCHANGED << pc, given, command, pos, line, elapsed, capture, found_one_solution,
                    exit_status, todo, sink, reached, marks, before, runs, tracked, classes, fetched >>

\* the solver exits (which closes its output)
ChildExits ==
    /\ child \in {"running", "closed"}
    /\ child' = "exited"
    /\ UNCHANGED << pc, given, command, pos, line, elapsed, capture, found_one_solution,
                    exit_status, todo, sink, reached, marks, before, runs, tracked, classes, fetched >>

\* variant: the loop is left as soon as the time budget is used up
EndOfStream_at_timeout ==
    /\ pc = "reading"
    /\ \/ child # "running" /\ (script.kind = "free" \/ pos = Len(script.lines))
       \/ elapsed >= time_limit
    /\ pc' = "waiting"
    /\ UNCHANGED << given, command, child, pos, line, elapsed, capture, found_one_solution,
                    exit_status, todo, sink, reached, marks, before, runs, tracked, classes, fetched >>

\* line 81: the output is closed and every line of it has been read
EndOfStream ==
    /\ pc = "reading"
    /\ child # "running"
    /\ script.kind = "free" \/ pos = Len(script.lines)
    /\ pc' = "waiting"
    /\ UNCHANGED << given, command, child, pos, line, elapsed, capture, found_one_solution,
                    exit_status, todo, sink, reached, marks, before, runs, tracked, classes, fetched >>

\* variant: the pending snapshot of an unfinished capture is kept
Wait_flushing_pending ==
    /\ pc = "waiting"
    /\ child = "exited"
    /\ \E status \in {0, 1} : exit_status' = status
    /\ results' = [solved |-> found_one_solution,
                   results |-> IF capture_next_block THEN Append(results.results, output)
                               ELSE results.results]
    /\ pc' = "returned"
    /\ UNCHANGED << given, command, child, pos, line, elapsed, save_idx, next_save_point,
                    output, capture_next_block, is_next_block, found_one_solution,
                    todo, sink, reached, marks, before, runs, tracked, classes, fetched >>

\* lines 110-113: proc.wait() returns once the solver has exited; results.solved; return
Wait ==
    /\ pc = "waiting"
    /\ child = "exited"
    /\ \E status \in {0, 1} : exit_status' = status
    /\ results' = [results EXCEPT !.solved = found_one_solution]
    /\ pc' = "returned"
    /\ UNCHANGED << given, command, child, pos, line, elapsed, save_idx, next_save_point,
                    output, capture_next_block, is_next_block, found_one_solution,
                    todo, sink, reached, marks, before, runs, tracked, classes, fetched >>

\* variant: every result is handed to the sink
Store_always ==
    /\ pc = "returned"
    /\ sink' = Append(sink, results)
    /\ pc' \in {"fetch", "sink_error"}
    /\ UNCHANGED << given, command, child, pos, line, elapsed, capture, found_one_solution,
                    exit_status, todo, reached, marks, before, runs, tracked, classes, fetched >>

\* lines 678-682: the driver hands a complete result to the sink; the insert
\* may fail (a feature the table needs is missing, the key is already there)
Store ==
    /\ pc = "returned"
    /\ IF Len(results.results) = Len(save_percentages)
       THEN /\ sink' = Append(sink, results)
            /\ pc' \in {"fetch", "sink_error"}
       ELSE /\ sink' = sink
            /\ pc' = "fetch"
    /\ UNCHANGED << given, command, child, pos, line, elapsed, capture, found_one_solution,
                    exit_status, todo, reached, marks, before, runs, tracked, classes, fetched >>

\* the rows of the todo table: id, mzn, dzn
Item(i) == [id |-> i, mzn |-> MODEL, dzn |-> IF i % 2 = 1 THEN None ELSE "data.dzn"]

\* the stream s after a solution found at once
Solved(s) == [s EXCEPT !.lines = << [line |-> SOLUTION_LINE, at |-> 0] >> \o @]

\* the solver outputs of the runs the driver makes
DriverScripts ==
    LET unsolved == { s \in ScriptsFor(save_points, DEFAULT_TIME_LIMIT) :
                        s.kind \in {"cycles", "malformed"} }
    IN  unsolved \cup { Solved(s) : s \in unsolved }

\* variant: the row read stays in the todo table
NextProblem_keeping_row ==
    /\ pc = "fetch"
    /\ IF todo = {}
       THEN /\ pc' = "done"
            /\ item' = NoItem
            /\ UNCHANGED << given, todo >>
       ELSE \E row \in todo :
              /\ item' = row
              /\ todo' = todo
              /\ pc' = "start"
              /\ problem_instance' = row.dzn
              /\ save_percentages' = save_points
              /\ time_limit' = DEFAULT_TIME_LIMIT
              /\ script' \in DriverScripts
              /\ files' = files
    /\ UNCHANGED << command, child, pos, line, elapsed, capture, found_one_solution,
                    exit_status, sink, reached, marks, before, runs, tracked, classes, ran >>

\* lines 671-672 and 683-684: read a row of the todo table and delete it; the
\* loop runs it, or ends when there is none
NextProblem ==
    /\ pc = "fetch"
    /\ IF todo = {}
       THEN /\ pc' = "done"
            /\ item' = NoItem
            /\ UNCHANGED << given, todo >>
       ELSE \E row \in todo :
              /\ item' = row
              /\ todo' = { r \in todo : r.id # row.id }
              /\ pc' = "start"
              /\ problem_instance' = row.dzn
              /\ save_percentages' = save_points
              /\ time_limit' = DEFAULT_TIME_LIMIT
              /\ script' \in DriverScripts
              /\ files' = files
    /\ UNCHANGED << command, child, pos, line, elapsed, capture, found_one_solution,
                    exit_status, sink, reached, marks, before, runs, tracked, classes, ran >>

\* the scripted streams of the lists of one target, every file in place
InitLive ==
    /\ InitWith({ t \in ScriptTargetLists : Len(t) = 1 })
    /\ script \in ScriptsFor(save_percentages, time_limit)
    /\ problem_instance \in {None, "data.dzn"}
    /\ files = {EXECUTABLE, MODEL, "data.dzn"}

\* the driver, with up to MaxItems rows in the todo table
InitDriver ==
    /\ pc = "fetch"
    /\ save_percentages = save_points
    /\ time_limit = DEFAULT_TIME_LIMIT
    /\ problem_instance = None
    /\ files = {EXECUTABLE, MODEL, "data.dzn"}
    /\ script = [kind |-> "cycles", n |-> 0, tail |-> "none", lines |-> <<>>]
    /\ command = <<>>
    /\ child = "none"
    /\ pos = 0
    /\ line = <<>>
    /\ elapsed = 0
    /\ save_idx = 0
    /\ next_save_point = -1
    /\ output = Output(-1)
    /\ capture_next_block = FALSE
    /\ is_next_block = FALSE
    /\ found_one_solution = FALSE
    /\ results = ProblemResults
    /\ exit_status = -1
    /\ todo \in { { Item(i) : i \in 1..n } : n \in 0..MaxItems }
    /\ sink = <<>>
    /\ reached = NotCalled
    /\ marks = 0
    /\ before = CaptureState
    /\ runs = 0
    /\ block = NoFeatures
    /\ ends = 0
    /\ classes = NotClassified
    /\ item = NoItem
    /\ ran = [i \in { r.id : r \in todo } |-> 0]

\* the times at which the scheduler specification asks
ProbeClock == { 50 * k : k \in 0..MaxProbeTick }

\* reached_save_point on its own: any targets, any pointer, any time
InitReached ==
    /\ pc = "probe"
    /\ save_percentages \in ScriptTargetLists
    /\ time_limit \in TimeLimits
    /\ save_idx \in 0..Len(save_percentages)
    /\ elapsed \in ProbeClock
    /\ problem_instance = None
    /\ files = {EXECUTABLE, MODEL}
    /\ script = FreeScript
    /\ command = <<>>
    /\ child = "none"
    /\ pos = 0
    /\ line = <<>>
    /\ next_save_point = -1
    /\ output = Output(-1)
    /\ capture_next_block = FALSE
    /\ is_next_block = FALSE
    /\ found_one_solution = FALSE
    /\ results = ProblemResults
    /\ exit_status = -1
    /\ todo = {}
    /\ sink = <<>>
    /\ reached = NotCalled
    /\ marks = 0
    /\ before = CaptureState
    /\ runs = 0
    /\ block = NoFeatures
    /\ ends = 0
    /\ classes = NotClassified
    /\ item = NoItem
    /\ ran = NoRuns

\* a call of reached_save_point at a time not before the last one
Probe ==
    /\ pc = "probe"
    /\ \E t \in { c \in ProbeClock : c >= elapsed } :
          /\ elapsed' = t
          /\ reached' = Called(reached_save_point(t, time_limit, save_percentages, save_idx))
    /\ UNCHANGED << pc, given, command, child, pos, line, capture, found_one_solution,
                    exit_status, todo, sink, marks, before, runs, tracked, classes, fetched >>

\* line 93 on its own: the pointer moves to the next target
Advance ==
    /\ pc = "probe"
    /\ save_idx < Len(save_percentages)
    /\ save_idx' = save_idx + 1
    /\ reached' = NotCalled
    /\ UNCHANGED << pc, given, command, child, pos, line, elapsed, next_save_point, output,
                    capture_next_block, is_next_block, results, found_one_solution,
                    exit_status, todo, sink, marks, before, runs, tracked, classes, fetched >>

NextReached == Probe \/ Advance

SpecReached == InitReached /\ [][NextReached]_vars

\* the classifiers on their own: the lines of the solver and every beginning
\* of them (a line cut short, a prefix with nothing behind it)
ClassifyInputs == { Prefix(l, n) : l \in Lines, n \in 0..MaxLineLen }

InitClassify ==
    /\ pc = "classify"
    /\ line \in ClassifyInputs
    /\ classes = NotClassified
    /\ item = NoItem
    /\ ran = NoRuns
    /\ save_percentages = save_points
    /\ time_limit = DEFAULT_TIME_LIMIT
    /\ problem_instance = None
    /\ files = {EXECUTABLE, MODEL}
    /\ script = FreeScript
    /\ command = <<>>
    /\ child = "none"
    /\ pos = 0
    /\ elapsed = 0
    /\ save_idx = 0
    /\ next_save_point = -1
    /\ output = Output(-1)
    /\ capture_next_block = FALSE
    /\ is_next_block = FALSE
    /\ found_one_solution = FALSE
    /\ results = ProblemResults
    /\ exit_status = -1
    /\ todo = {}
    /\ sink = <<>>
    /\ reached = NotCalled
    /\ marks = 0
    /\ before = CaptureState
    /\ runs = 0
    /\ block = NoFeatures
    /\ ends = 0

\* lines 128-156: the four classifiers are called on the line
Classify ==
    /\ pc = "classify"
    /\ classes' = [called |-> TRUE,
                   stat |-> is_stat_related(line),
                   value |-> is_stat_value(line),
                   end |-> stat_block_end(line),
                   solution |-> is_solution(line)]
    /\ UNCHANGED << pc, given, command, child, pos, line, elapsed, capture,
                    found_one_solution, exit_status, todo, sink, reached, marks, before,
                    runs, tracked, fetched >>

\* another line comes up for classification
NextLine ==
    /\ pc = "classify"
    /\ classes.called
    /\ line' \in ClassifyInputs
    /\ classes' = NotClassified
    /\ UNCHANGED << pc, given, command, child, pos, elapsed, capture, found_one_solution,
                    exit_status, todo, sink, reached, marks, before, runs, tracked, fetched >>

NextClassify == Classify \/ NextLine

SpecClassify == InitClassify /\ [][NextClassify]_vars

Next == Setup \/ Read \/ ChildCloses \/ ChildExits \/ EndOfStream \/ Wait \/ Store \/ NextProblem

Spec == Init /\ [][Next]_vars

SpecScript == InitScript /\ [][Next]_vars

SpecDriver == InitDriver /\ [][Next]_vars

\* a line of the script is waiting in the pipe: Read is enabled
ReadEnabled == pc = "reading" /\ Pending # {}

\* WF_vars(Read), with ENABLED <<Read>>_vars written as ReadEnabled
FairRead == []<>(~ReadEnabled) \/ []<><<Read>>_vars

\* the driver loop goes on whenever it has a step to take, and every solver
\* it starts exits in the end
LiveDriver ==
    /\ InitDriver
    /\ [][Next]_vars
    /\ WF_vars(NextProblem) /\ WF_vars(Setup) /\ FairRead /\ WF_vars(EndOfStream)
    /\ WF_vars(Wait) /\ WF_vars(Store) /\ WF_vars(ChildExits)

\* the interpreter goes on whenever run_problem has a step to take; nothing
\* makes the solver close its output or exit
LiveScript ==
    /\ InitLive
    /\ [][Next]_vars
    /\ WF_vars(Setup) /\ FairRead /\ WF_vars(EndOfStream) /\ WF_vars(Wait)

\* ------------------------------------------------------------- vocabulary
Idle == ~capture_next_block

Capturing == capture_next_block /\ ~is_next_block

CapturingNextBlock == capture_next_block /\ is_next_block

Returned == pc \in {"returned", "fetch", "sink_error", "done"}

\* the step reads a line (it is an iteration of the loop)
ReadStep == pc = "reading" /\ pc' \in {"reading", "raised"} /\ child' = child

Labels == [ k \in 1..Len(results.results) |-> results.results[k].percent ]

\* --------------------------------------------------- what the lines mean
NameX == <<"x">>

NameFoo == <<"f", "o", "o">>

\* the lines that begin with %%%mzn-stat
StatRelated ==
    { LineEnd, LineX1, LineX2, LineFoo, LineGarbage, LineNotNumber, LineTwoSeps, LineStatOther }

\* the other lines: the solution marker, with and without newline, the empty line
NotStatRelated == { SOLUTION_LINE, LineMarkerNoNewline, LineEmpty }

\* the well-formed value lines, with the name and the number each one carries
Expected ==
    (LineX1 :> [name |-> NameX, value |-> <<1, 0>>]) @@
    (LineX2 :> [name |-> NameX, value |-> <<2, 0>>]) @@
    (LineFoo :> [name |-> NameFoo, value |-> <<35, 1>>])

\* the value lines that carry no name=number pair
Malformed == {LineGarbage, LineNotNumber, LineTwoSeps}

\* ------------------------------------------------- the tracking specification
\* block-end lines are counted up to here: two for each snapshot, and one more
EndsCap == 2 * MaxTargets + 1

\* the history of the line ln: a block-end line starts a new block, a
\* well-formed value line is noted in the current one
Track(ln) ==
    /\ block' = IF ln = LineEnd THEN NoFeatures
                ELSE IF ln \in DOMAIN Expected
                THEN (Expected[ln].name :> Expected[ln].value) @@ block
                ELSE block
    /\ ends' = IF ln = LineEnd THEN Min(ends + 1, EndsCap) ELSE ends

\* Read, with the history of the block-end lines kept, for every line but the
\* solution marker (which touches the solved indicator only)
ReadTracked ==
    \E in \in { i \in Pending : i.line # SOLUTION_LINE } :
        ReadLine(in.line, in.at) /\ Track(in.line)

NextTracked ==
    Setup \/ ReadTracked \/ ChildCloses \/ ChildExits \/ EndOfStream \/ Wait \/ Store \/ NextProblem

\* any line at any time, with the history kept
SpecTracked == Init /\ [][NextTracked]_vars

\* ------------------------------------------------------------------ claims

\* C1 (as claimed): when the solver writes exactly len(T) well-formed
\* statistics blocks evenly spaced over the budget, the returned result holds
\* len(T) snapshots labelled T[0], T[1], ... in order.
C1_SnapshotPerBlock ==
    (Returned /\ script.kind = "blocks") => Labels = save_percentages

\* C2 (as claimed): the k-th appended snapshot is labelled with the k-th
\* checkpoint target, so the labels are strictly increasing.
C2_LabelIsTarget ==
    \A k \in 1..Len(results.results) : results.results[k].percent = save_percentages[k]

\* C3 (as claimed): checkpoints [50], budget 1000 ms, one block (x=1.0, then
\* block-end) read at 600 ms: the result is the one snapshot {50, {x: 1.0}}.
C3_SingleBlockCaptured ==
    (Returned /\ script.kind = "single block") =>
        results.results = << [percent |-> 50, features |-> (NameX :> <<1, 0>>)] >>

\* C3 (amended): the block is captured when a block-end line precedes it;
\* the same block without that line yields no snapshot.
C3_SingleBlockAfterEnd ==
    Returned =>
        /\ script.kind = "single block after block-end" =>
             results.results = << [percent |-> 50, features |-> (NameX :> <<1, 0>>)] >>
        /\ script.kind = "single block" => results.results = <<>>

C3_Witness ==
    /\ pc = "returned"
    /\ script.kind = "single block after block-end"
    /\ Len(results.results) = 1

C5_SolvedMonotone ==
    [][ /\ pc = "start" => ~found_one_solution'
        /\ ReadStep => (found_one_solution' <=> (found_one_solution \/ line' = SOLUTION_LINE))
        /\ (pc # "start" /\ found_one_solution) => found_one_solution' ]_vars

C5_Witness ==
    /\ pc = "reading"
    /\ found_one_solution
    /\ marks = 1
    /\ line \in Lines \ {SOLUTION_LINE}

\* C6 (as claimed): the solved indicator turns true only at a marker read
\* within the time budget.
C6_SolvedWithinBudget ==
    [][ (~found_one_solution /\ found_one_solution') => elapsed' <= time_limit ]_vars

\* C7: when the stream ends after n complete captures (2 of 4 targets, say),
\* the run returns without error and the result holds exactly n snapshots.
C7_PartialNotPadded ==
    script.kind = "cycles" =>
        /\ pc # "raised"
        /\ Returned => Len(results.results) = script.n
        /\ (pc = "done" /\ script.n < Len(save_percentages)) => sink = <<>>

C7_Witness ==
    /\ pc = "returned"
    /\ script.kind = "cycles"
    /\ Len(save_percentages) = 4
    /\ script.n = 2
    /\ Len(results.results) = 2

\* C8: snapshots are appended only by a block-end line read in
\* CapturingNextBlock; the end of the stream and the return append nothing,
\* so a pending snapshot is dropped with the features it holds.
C8_PendingDiscarded ==
    [][ /\ results'.results # results.results =>
             /\ ReadStep
             /\ CapturingNextBlock
             /\ stat_block_end(line')
             /\ results'.results = Append(results.results, output)
        /\ pc \in {"reading", "waiting"} /\ pc' \in {"waiting", "returned"} =>
             results'.results = results.results ]_vars

C8_Witness ==
    /\ pc = "returned"
    /\ CapturingNextBlock
    /\ DOMAIN output.features # {}
    /\ \A k \in 1..Len(results.results) : results.results[k] # output

\* C9: a malformed value line read in CapturingNextBlock ends the run with an
\* error: nothing is appended, nothing is returned and the sink is not called.
C9_MalformedAborts ==
    /\ [](pc = "raised" => (sink = <<>> /\ Len(results.results) = before.count))
    /\ [][ /\ (ReadStep /\ CapturingNextBlock /\ line' \in Malformed) =>
                (pc' = "raised" /\ results' = results)
           /\ pc = "raised" => pc' = "raised" ]_vars

C9_Witness ==
    /\ pc = "raised"
    /\ line = LineGarbage
    /\ before.capture_next_block /\ before.is_next_block

\* C10: a well-formed value line read in CapturingNextBlock sets its name to
\* its number in the pending snapshot and changes nothing else.
C10_ValueStored ==
    [][ (ReadStep /\ CapturingNextBlock /\ line' \in DOMAIN Expected) =>
          LET name == Expected[line'].name
          IN  /\ pc' = "reading"
              /\ DOMAIN output'.features = (DOMAIN output.features) \cup {name}
              /\ output'.features[name] = Expected[line'].value
              /\ \A n \in (DOMAIN output.features) \ {name} :
                    output'.features[n] = output.features[n]
              /\ output'.percent = output.percent
              /\ UNCHANGED << capture_next_block, is_next_block, save_idx, results >> ]_vars

C10_Witness ==
    /\ pc = "reading"
    /\ line = LineX2
    /\ before.capture_next_block /\ before.is_next_block
    /\ before.output.features = (NameX :> <<1, 0>>) @@ (NameFoo :> <<35, 1>>)
    /\ output.features = (NameX :> <<2, 0>>) @@ (NameFoo :> <<35, 1>>)

\* C11: reached_save_point is true exactly when a target remains and the
\* elapsed time has reached that target's share of the budget; it is false
\* when no target remains, and for a fixed pointer it stays true as time grows.
C11_ReachedSavePoint ==
    /\ [](reached.called =>
            (reached.value <=> /\ save_idx < Len(save_percentages)
                               /\ elapsed >= DueAt(save_percentages[save_idx + 1], time_limit)))
    /\ [][ (reached = Called(TRUE) /\ save_idx' = save_idx /\ reached'.called) =>
              reached'.value ]_vars

C11_Witness ==
    /\ pc = "probe"
    /\ reached = Called(TRUE)
    /\ save_idx = 1
    /\ elapsed = DueAt(save_percentages[2], time_limit)

\* C12 (as claimed): when the executable cannot be found, or the model file is
\* missing, or an instance is given and its file is missing, the run ends
\* with an error before any solver process is started.
C12_ConfigChecked ==
    ( \/ EXECUTABLE \notin files
      \/ MODEL \notin files
      \/ (problem_instance # None /\ problem_instance \notin files) ) =>
        (child = "none" /\ pc \in {"start", "not_found"})

\* C13: the driver hands a result to the sink only when it holds as many
\* snapshots as there are configured checkpoints.
C13_SinkOnlyComplete ==
    /\ [](\A i \in 1..Len(sink) : Len(sink[i].results) = Len(save_points))
    /\ [][ /\ sink' # sink =>
                /\ pc = "returned"
                /\ Len(results.results) = Len(save_percentages)
                /\ sink' = Append(sink, results)
           /\ (pc = "returned" /\ Len(results.results) # Len(save_percentages)) =>
                (sink' = sink /\ pc' = "fetch") ]_vars

C13_Witness ==
    /\ pc = "done"
    /\ runs = 2
    /\ Len(sink) = 1
    /\ Len(results.results) < Len(save_points)

\* C14 as stated: once the solver has closed its output and exited, run_problem
\* returns. A stream with a malformed value line ends in the ValueError of C9.
C14_ReturnsWhenChildExits == (child = "exited") ~> Returned

\* C14: run_problem leaves the loop only when the solver's output is closed and
\* read to its end, and returns only from the wait, with the solver exited; no
\* step of run_problem after the spawn changes the solver's state, so while the
\* solver keeps its output open run_problem stays in the loop, whatever the
\* elapsed time; once the solver has exited, run_problem returns or has raised.
C14_ReturnAfterStreamAndWait ==
    /\ [][ /\ (pc' = "waiting" /\ pc # "waiting") =>
                (pc = "reading" /\ child # "running" /\ pos = Len(script.lines))
           /\ (pc' = "returned" /\ pc # "returned") => (pc = "waiting" /\ child = "exited")
           /\ (pc # "start" /\ << pc, pos, line, elapsed, capture, found_one_solution >>' #
                                << pc, pos, line, elapsed, capture, found_one_solution >>) =>
                child' = child ]_vars
    /\ [](child = "running" => pc \in {"reading", "raised"})
    /\ [](Returned => child = "exited")
    /\ (child = "exited") ~> (Returned \/ pc = "raised")

\* a run that read a line after the time budget has returned, the solver exited
C14_Witness ==
    /\ pc = "returned"
    /\ child = "exited"
    /\ elapsed > time_limit
    /\ pos = Len(script.lines)

\* C15: every call of run_problem in the driver loop starts fresh: Idle, pointer
\* 0, solved indicator false, no snapshots, no pending features, whatever the
\* run before left behind.
C15_FreshRun ==
    [][ (pc = "start" /\ pc' = "reading") =>
          /\ Idle' /\ ~is_next_block'
          /\ save_idx' = 0
          /\ ~found_one_solution'
          /\ results' = ProblemResults
          /\ output' = Output(save_percentages[1]) ]_vars

\* the second run has just been set up; the first ended in a capture, with
\* pending features, snapshots and a solution
C15_Witness ==
    /\ runs = 2 /\ pc = "reading" /\ pos = 0
    /\ before.capture_next_block /\ before.is_next_block
    /\ DOMAIN before.output.features # {}
    /\ before.save_idx > 0 /\ before.count > 0 /\ before.found
    /\ Idle /\ save_idx = 0 /\ ~found_one_solution
    /\ results.results = <<>> /\ DOMAIN output.features = {}

\* C16: the pointer counts the captures begun: it equals the number of appended
\* snapshots, plus one while a capture is in progress, and never passes the
\* number of targets; reached_save_point is called only while Idle, and the
\* pointer moves only by one, at a line that begins a capture.
C16_PointerCountsCaptures ==
    /\ [](save_idx = Len(results.results) + (IF capture_next_block THEN 1 ELSE 0))
    /\ [](/\ 0 <= Len(results.results)
          /\ Len(results.results) <= save_idx
          /\ save_idx <= Len(save_percentages))
    /\ [](reached.called => ~before.capture_next_block)
    /\ [][ (ReadStep /\ save_idx' # save_idx) =>
              (Idle /\ ~Idle' /\ save_idx' = save_idx + 1) ]_vars

\* a statistics line was read during a capture while the next target was due
\* as well: the pointer stayed
C16_Witness ==
    /\ pc = "reading"
    /\ is_stat_related(line)
    /\ before.capture_next_block /\ capture_next_block
    /\ before.save_idx = save_idx
    /\ save_idx < Len(save_percentages)
    /\ elapsed >= DueAt(save_percentages[save_idx + 1], time_limit)
    /\ Len(results.results) = save_idx - 1

\* C17: a line moves the pointer by at most one target, also when several are
\* due; the target a capture takes is the next one of the list; and a capture
\* begins only when every capture begun before has appended its snapshot.
C17_OneTargetPerLine ==
    [][ ReadStep =>
          /\ save_idx' \in {save_idx, save_idx + 1}
          /\ save_idx' = save_idx + 1 =>
                /\ next_save_point' = save_percentages[save_idx + 1]
                /\ Len(results.results) = save_idx
                /\ Len(results'.results) = save_idx ]_vars

\* two targets were due when a line began the capture of the first: the second
\* is still to come
C17_Witness ==
    /\ pc = "reading"
    /\ Len(save_percentages) = 2
    /\ before.save_idx = 0 /\ save_idx = 1
    /\ next_save_point = save_percentages[1]
    /\ elapsed >= DueAt(save_percentages[2], time_limit)
    /\ capture_next_block
    /\ results.results = <<>>

\* C18: a line read begins the capture of the next target exactly when it is
\* statistics-related, read while Idle, and read no earlier than that target's
\* share of the time budget: never before, and at the first such line after.
C18_BeginsWhenDue ==
    [][ ReadStep =>
          ( save_idx' = save_idx + 1 <=>
              /\ Idle
              /\ line' \in StatRelated
              /\ save_idx < Len(save_percentages)
              /\ elapsed' >= DueAt(save_percentages[save_idx + 1], time_limit) ) ]_vars

\* the capture of the first target began at a line read after its due time
C18_Witness ==
    /\ pc = "reading"
    /\ line \in StatRelated
    /\ ~before.capture_next_block /\ before.save_idx = 0
    /\ save_idx = 1 /\ capture_next_block
    /\ elapsed > DueAt(save_percentages[1], time_limit)
    /\ next_save_point = save_percentages[1]

\* C19: within a run the appended snapshots are never changed: every step
\* keeps the list as it is or adds one snapshot at its end.
C19_SnapshotsAppendOnly ==
    [][ pc # "start" =>
          /\ Len(results'.results) \in {Len(results.results), Len(results.results) + 1}
          /\ SubSeq(results'.results, 1, Len(results.results)) = results.results ]_vars

\* x = 1.0 is in the appended snapshot, and the next captured block has
\* stored x = 2 in the pending one
C19_Witness ==
    /\ pc = "reading"
    /\ Len(results.results) = 1
    /\ NameX \in DOMAIN results.results[1].features
    /\ results.results[1].features[NameX] = <<1, 0>>
    /\ CapturingNextBlock
    /\ NameX \in DOMAIN output.features
    /\ output.features[NameX] = <<2, 0>>

\* C20: a line that does not begin with %%%mzn-stat (the solution marker, the
\* marker without newline, the empty line) leaves the capture flags, the
\* pointer, the pending snapshot and the appended snapshots as they are and
\* does not end the run, whatever is due; only the solved indicator may change.
C20_OtherLinesKeepCapture ==
    [][ (ReadStep /\ line' \in NotStatRelated) =>
          /\ capture' = capture
          /\ pc' = "reading"
          /\ reached' = NotCalled ]_vars

\* the solution marker was read while Idle with the first target due: solved
\* is set, no capture has begun
C20_Witness ==
    /\ pc = "reading"
    /\ line = SOLUTION_LINE
    /\ ~before.found /\ found_one_solution
    /\ Idle /\ save_idx = 0 /\ before.save_idx = 0
    /\ elapsed >= DueAt(save_percentages[1], time_limit)
    /\ results.results = <<>>

\* C21: the features of an appended snapshot are the value lines read since the
\* block-end line before the one that appends it, the last value for each name;
\* the pending snapshot holds those lines during the captured block and nothing
\* otherwise, so a value line read while Idle or Capturing is stored nowhere.
C21_SnapshotIsNextBlock ==
    /\ [](CapturingNextBlock => output.features = block)
    /\ [](~CapturingNextBlock => output.features = NoFeatures)
    /\ [][ (ReadStep /\ results' # results) =>
              /\ line' = LineEnd /\ CapturingNextBlock
              /\ Len(results'.results) = Len(results.results) + 1
              /\ results'.results[Len(results'.results)].features = block ]_vars
    /\ [][ (ReadStep /\ ~CapturingNextBlock /\ line' \in DOMAIN Expected) =>
              (output' = output /\ results' = results) ]_vars

\* the first snapshot holds x = 2 of its captured block; the second capture
\* has begun and x = 1.0, read since, is not in the pending snapshot
C21_Witness ==
    /\ pc = "reading"
    /\ Len(results.results) = 1
    /\ results.results[1].features = (NameX :> <<2, 0>>)
    /\ Capturing
    /\ block = (NameX :> <<1, 0>>)
    /\ output.features = NoFeatures

\* C22: while Capturing a statistics-related line that is not a block-end, and
\* while CapturingNextBlock one that is neither a value line nor a block-end,
\* changes none of the capture flags, the pointer, the pending snapshot and the
\* results, and does not end the run.
C22_OtherStatLinesIgnored ==
    [][ ( /\ ReadStep
          /\ \/ Capturing /\ line' \in StatRelated \ {LineEnd}
             \/ CapturingNextBlock /\ line' \in StatRelated \ ({LineEnd} \cup DOMAIN Expected \cup Malformed) ) =>
          (capture' = capture /\ pc' = "reading") ]_vars

\* a malformed value line was read while Capturing, with the next target due:
\* nothing moved
C22_Witness ==
    /\ pc = "reading"
    /\ line = LineGarbage
    /\ before.capture_next_block /\ ~before.is_next_block
    /\ Capturing
    /\ before.save_idx = save_idx
    /\ save_idx < Len(save_percentages)
    /\ elapsed >= DueAt(save_percentages[save_idx + 1], time_limit)

\* C23: the classifiers are prefix and equality tests: statistics-related means
\* the first 11 characters are %%%mzn-stat, a value line and a block-end line
\* are statistics-related and no line is both, the solution marker is the one
\* line ----------\n and is not statistics-related, the empty line is in no
\* category; a call changes nothing else and a second call on the same line
\* gives the same answers.
C23_ClassifiersConsistent ==
    /\ [](classes.called =>
            /\ classes.stat <=> (Len(line) >= 11 /\ \A i \in 1..11 : line[i] = STAT_PREFIX[i])
            /\ classes.value <=> (Len(line) >= 13 /\ \A i \in 1..13 : line[i] = VALUE_PREFIX[i])
            /\ classes.end <=> (Len(line) >= 15 /\ \A i \in 1..15 : line[i] = END_PREFIX[i])
            /\ classes.solution <=> line = SOLUTION_LINE
            /\ (classes.value \/ classes.end) => classes.stat
            /\ ~(classes.value /\ classes.end)
            /\ classes.solution => ~classes.stat
            /\ line \in {<<>>, LineEmpty} =>
                  ~(classes.stat \/ classes.value \/ classes.end \/ classes.solution))
    /\ [][ (classes'.called /\ classes' # classes) =>
              (line' = line /\ UNCHANGED << pc, given, capture, found_one_solution, reached >>) ]_vars
    /\ [][ (classes.called /\ classes'.called /\ line' = line) => classes' = classes ]_vars

\* the block-end line has been classified: statistics-related, an end, nothing else
C23_Witness ==
    /\ pc = "classify"
    /\ line = LineEnd
    /\ classes = [called |-> TRUE, stat |-> TRUE, value |-> FALSE, end |-> TRUE, solution |-> FALSE]

\* C24: when run_problem is called for a row, no row of that id is left in the
\* todo table, so run_problem is called at most once for each id queued and a
\* row is never run again, whatever became of its result; every fetch takes a
\* row off the table or ends the loop, and the loop ends with the table empty
\* and one call made for every id queued; it does end, unless a call of
\* run_problem or of the insert raises.
C24_EachItemRunOnce ==
    /\ [][ (pc = "start" /\ pc' # "start" /\ item # NoItem) =>
              /\ \A r \in todo : r.id # item.id
              /\ ran'[item.id] = ran[item.id] + 1 ]_vars
    /\ [](\A i \in DOMAIN ran : ran[i] <= 1 /\ (ran[i] = 1 => \A r \in todo : r.id # i))
    /\ [][ (pc = "fetch" /\ pc' # "fetch") =>
              \/ todo = {} /\ pc' = "done"
              \/ pc' = "start" /\ item' \in todo /\ todo' = todo \ {item'} ]_vars
    /\ [](pc = "done" => (todo = {} /\ \A i \in DOMAIN ran : ran[i] = 1))
    /\ <>(pc \in {"done", "raised", "not_found", "sink_error"})

\* the loop has ended: two rows were queued, each was run once, one result
\* was stored and the other, incomplete, was not
C24_Witness ==
    /\ pc = "done"
    /\ todo = {}
    /\ DOMAIN ran = {1, 2}
    /\ ran[1] = 1 /\ ran[2] = 1
    /\ Len(sink) = 1
    /\ item = NoItem

\* C25 as stated: Idle at the start, is_next_block only with capture_next_block,
\* CapturingNextBlock is left only by a block-end line that appends one snapshot
\* and goes to Idle, and is entered only by a block-end line read while
\* Capturing. A block-end line read while Idle with a target due enters it too.
C25_ThreeStates ==
    /\ [](pc = "start" => Idle)
    /\ [](is_next_block => capture_next_block)
    /\ [][ (pc # "start" /\ CapturingNextBlock /\ ~CapturingNextBlock') =>
              /\ ReadStep /\ line' = LineEnd /\ Idle'
              /\ Len(results'.results) = Len(results.results) + 1 ]_vars
    /\ [][ (~CapturingNextBlock /\ CapturingNextBlock') =>
              (ReadStep /\ line' = LineEnd /\ Capturing) ]_vars

\* C25: Idle at the start, is_next_block only with capture_next_block,
\* CapturingNextBlock is left only by a block-end line that appends one snapshot
\* and goes to Idle, and is entered only by a block-end line, read while
\* Capturing or read while Idle with the next target due (the line begins the
\* capture and arms it).
C25_ThreeStatesEntryFromIdle ==
    /\ [](pc = "start" => Idle)
    /\ [](is_next_block => capture_next_block)
    /\ [][ (pc # "start" /\ CapturingNextBlock /\ ~CapturingNextBlock') =>
              /\ ReadStep /\ line' = LineEnd /\ Idle'
              /\ Len(results'.results) = Len(results.results) + 1 ]_vars
    /\ [][ (~CapturingNextBlock /\ CapturingNextBlock') =>
              /\ ReadStep /\ line' = LineEnd
              /\ \/ Capturing
                 \/ /\ Idle /\ save_idx < Len(save_percentages)
                    /\ elapsed' >= DueAt(save_percentages[save_idx + 1], time_limit) ]_vars
    /\ [][ (ReadStep /\ Idle /\ line' = LineEnd /\ save_idx < Len(save_percentages)
              /\ elapsed' >= DueAt(save_percentages[save_idx + 1], time_limit)) =>
              CapturingNextBlock' ]_vars

\* a block-end line read while Idle has begun the capture and armed it
C25_Witness ==
    /\ pc = "reading"
    /\ line = LineEnd
    /\ ~before.capture_next_block /\ ~before.is_next_block
    /\ CapturingNextBlock
    /\ save_idx = before.save_idx + 1

\* C26: a block-end line read while Idle with a target due begins the capture
\* and arms it; the line that arms a capture appends nothing, the line that
\* appends a snapshot is a block-end line read after the arming one and it
\* leaves the machine Idle with the pointer where it was, also when the next
\* target is due; so twice the number of snapshots is at most the number of
\* block-end lines read.
C26_TwoEndsPerSnapshot ==
    /\ [][ (ReadStep /\ Idle /\ line' = LineEnd /\ save_idx < Len(save_percentages)
              /\ elapsed' >= DueAt(save_percentages[save_idx + 1], time_limit)) =>
              (CapturingNextBlock' /\ save_idx' = save_idx + 1 /\ results' = results) ]_vars
    /\ [][ (ReadStep /\ ~CapturingNextBlock /\ CapturingNextBlock') =>
              (line' = LineEnd /\ results' = results) ]_vars
    /\ [][ (ReadStep /\ results' # results) =>
              /\ line' = LineEnd /\ CapturingNextBlock /\ ends >= 1
              /\ Idle' /\ ~is_next_block' /\ save_idx' = save_idx ]_vars
    /\ [](2 * Len(results.results) <= ends)

\* the second block-end line has appended the first snapshot; the next target
\* is due and no capture has begun
C26_Witness ==
    /\ pc = "reading"
    /\ line = LineEnd
    /\ ends = 2
    /\ Len(results.results) = 1
    /\ before.capture_next_block /\ before.is_next_block /\ before.count = 0
    /\ Idle
    /\ save_idx = 1 /\ Len(save_percentages) = 2
    /\ elapsed >= DueAt(save_percentages[2], time_limit)

\* C27: once the solver is spawned, the command is executable, model, the
\* instance if one was given (any value but None), --solver, the solver id, -t
\* and the time limit in decimal digits; and an instance that was given exists.
C27_CommandShape ==
    child # "none" =>
        /\ Len(command) = (IF problem_instance # None THEN 7 ELSE 6)
        /\ command[1] = EXECUTABLE /\ command[2] = MODEL
        /\ problem_instance # None => command[3] = problem_instance
        /\ SubSeq(command, Len(command) - 3, Len(command) - 1) = << "--solver", SOLVER, "-t" >>
        /\ AllDigits(command[Len(command)])
        /\ DigitsValue(command[Len(command)]) = time_limit
        /\ problem_instance # None => problem_instance \in files

====
